---- MODULE Spec2Model ----
(***************************************************************************)
(* Model of the SQL front end of nireo/sgsql (package parser): the         *)
(* scanners, the tokenizer driver and the top-level parse loop.            *)
(*                                                                         *)
(* Text is a sequence of one-character strings; Go's 0-based src[i] is     *)
(* src[i+1] here, and the slice src[a:b] is SubSeq(src, a+1, b).           *)
(***************************************************************************)
EXTENDS Integers, Sequences, FiniteSets, TLC

VARIABLES
    src,      \* the source text handed to tokenize / to a scanner
    cur,      \* tokenize: the cursor of the driver loop
    tokens,   \* tokenize: the tokens accumulated; Parse: the tokens returned by tokenize
    pc,       \* control position of the function being run
    ret,      \* the value returned by tokenize / Parse once pc = "done"
    ic,       \* the start cursor handed to a scanner applied on its own
    scanned,  \* the result of the scanner applied on its own
    cursor,   \* Parse: index of the next token
    a         \* Parse: the AST under construction (a.Statements)

vars == <<src, cur, tokens, pc, ret, ic, scanned, cursor, a>>

(***************************************************************************)
(* Bounds of the model.                                                    *)
(***************************************************************************)
MaxPieces == 3
MaxScanPieces == 2
MaxMatchLen == 3
MaxOptions == 2
MaxItems == 4
MaxParsePieces == 2

(***************************************************************************)
(* Token kinds: the iota values of the const block.                        *)
(***************************************************************************)
keywordType == 16
symbolType == 17
identifierType == 18
stringType == 19
numericType == 20

(***************************************************************************)
(* Statement kinds: the iota values of the ASTType const block.            *)
(***************************************************************************)
SelectType == 0
CreateTableType == 1
InsertType == 2

\* expressionType: the only kind of expression
literalType == 0

(***************************************************************************)
(* Character classes.                                                      *)
(***************************************************************************)
Digits == {"0", "1", "2", "3", "4", "5", "6", "7", "8", "9"}

UpperSeq == <<"A", "B", "C", "D", "E", "F", "G", "H", "I", "J", "K", "L", "M",
              "N", "O", "P", "Q", "R", "S", "T", "U", "V", "W", "X", "Y", "Z">>

LowerSeq == <<"a", "b", "c", "d", "e", "f", "g", "h", "i", "j", "k", "l", "m",
              "n", "o", "p", "q", "r", "s", "t", "u", "v", "w", "x", "y", "z">>

UpperLetters == {UpperSeq[i] : i \in 1..26}

LowerLetters == {LowerSeq[i] : i \in 1..26}

\* a faulty variant of ToLowerChar: the byte is kept as written
ToLowerCharKeepsCase(c) == c

\* strings.ToLower on one ASCII byte
ToLowerChar(c) ==
    IF c \in UpperLetters
    THEN LowerSeq[CHOOSE i \in 1..26 : UpperSeq[i] = c]
    ELSE c

\* strings.ToLower on a text
ToLower(s) == [i \in 1..Len(s) |-> ToLowerChar(s[i])]

(***************************************************************************)
(* Data: loc, tok, cursor, and the triple a scanner returns.               *)
(***************************************************************************)
NilTok == [nil |-> TRUE]

NilErr == [msg |-> "nil"]

Loc(l, c) == [line |-> l, column |-> c]

Cursor(p, l, c) == [ptr |-> p, loc |-> Loc(l, c)]

Tok(v, t, l) == [value |-> v, tt |-> t, loc |-> l]

\* tok.eq: value and kind, location excluded
TokEq(t, rhs) == t.value = rhs.value /\ t.tt = rhs.tt

\* the failure return of every scanner: nil, ic, false
NoMatch(c) == [tok |-> NilTok, cur |-> c, ok |-> FALSE]

Matched(t, c) == [tok |-> t, cur |-> c, ok |-> TRUE]

(***************************************************************************)
(* lexNum                                                                  *)
(***************************************************************************)
\* after the loop: nothing accumulated is a failure, else the numeric token
LexNumEnd(s, c0, ptr, col) ==
    IF ptr = c0.ptr
    THEN NoMatch(c0)
    ELSE Matched(Tok(SubSeq(s, c0.ptr + 1, ptr), numericType, c0.loc),
                 Cursor(ptr, c0.loc.line, col))

\* a faulty variant of LexNumSecondPeriod: the scan stops in front of the second
\* period and keeps what it has
LexNumSecondPeriodBreaks(s, c0, ptr, col) == LexNumEnd(s, c0, ptr, col)

\* a faulty variant of LexNumSecondPeriod: the second period is taken and the
\* scan stops after it
LexNumSecondPeriodTaken(s, c0, ptr, col) == LexNumEnd(s, c0, ptr + 1, col)

\* a faulty variant of LexNumSecondPeriod: `return nil, cur, false`
LexNumSecondPeriodKeepsCursor(s, c0, ptr, col) ==
    [tok |-> NilTok, cur |-> Cursor(ptr, c0.loc.line, col), ok |-> FALSE]

\* `if isPeriod { if periodFound { return nil, ic, false } ... }`
LexNumSecondPeriod(s, c0, ptr, col) == NoMatch(c0)

RECURSIVE LexNumLoop(_, _, _, _, _, _)
\* one iteration of the for loop at byte ptr; col is cur.loc.column
LexNumLoop(s, c0, ptr, col, periodFound, expMarkerFound) ==
    IF ptr >= Len(s)
    THEN LexNumEnd(s, c0, ptr, col)
    ELSE LET c == s[ptr + 1]
             col1 == col + 1
             isDigit == c \in Digits
             isPeriod == c = "."
             isExpMarker == c = "e"
         IN  IF ptr = c0.ptr
             THEN IF ~isDigit /\ ~isPeriod
                  THEN NoMatch(c0)
                  ELSE LexNumLoop(s, c0, ptr + 1, col1, isPeriod, expMarkerFound)
             ELSE IF isPeriod
             THEN IF periodFound
                  THEN LexNumSecondPeriod(s, c0, ptr, col1)
                  ELSE LexNumLoop(s, c0, ptr + 1, col1, TRUE, expMarkerFound)
             ELSE IF isExpMarker
             THEN IF expMarkerFound
                  THEN NoMatch(c0)
                  ELSE IF ptr = Len(s) - 1
                  THEN NoMatch(c0)
                  ELSE IF s[ptr + 2] \in {"-", "+"}
                  THEN LexNumLoop(s, c0, ptr + 2, col1 + 1, TRUE, TRUE)
                  ELSE LexNumLoop(s, c0, ptr + 1, col1, TRUE, TRUE)
             ELSE IF ~isDigit
             THEN LexNumEnd(s, c0, ptr, col1)
             ELSE LexNumLoop(s, c0, ptr + 1, col1, periodFound, expMarkerFound)

lexNum(s, c0) == LexNumLoop(s, c0, c0.ptr, c0.loc.column, FALSE, FALSE)

(***************************************************************************)
(* lexCharacterDelimited, lexString                                        *)
(***************************************************************************)
RECURSIVE LexDelimitedLoop(_, _, _, _, _, _)
\* one iteration of the for loop at byte ptr
LexDelimitedLoop(s, c0, delimiter, ptr, col, value) ==
    IF ptr >= Len(s)
    THEN NoMatch(c0)
    ELSE LET c == s[ptr + 1]
         IN  IF c = delimiter
             THEN IF ptr + 1 >= Len(s) \/ s[ptr + 2] # delimiter
                  THEN Matched(Tok(value, stringType, c0.loc),
                               Cursor(ptr, c0.loc.line, col))
                  ELSE LexDelimitedLoop(s, c0, delimiter, ptr + 2, col + 2,
                                        value \o <<delimiter, c>>)
             ELSE LexDelimitedLoop(s, c0, delimiter, ptr + 1, col + 1,
                                   value \o <<c>>)

lexCharacterDelimited(s, c0, delimiter) ==
    IF Len(s) - c0.ptr = 0
    THEN NoMatch(c0)
    ELSE IF s[c0.ptr + 1] # delimiter
    THEN NoMatch(c0)
    ELSE LexDelimitedLoop(s, c0, delimiter, c0.ptr + 1, c0.loc.column + 1, <<>>)

\* a faulty variant of lexString: a successful scan returns the input cursor
lexStringNoAdvance(s, c0) ==
    LET r == lexCharacterDelimited(s, c0, "'")
    IN  IF r.ok THEN Matched(r.tok, c0) ELSE r

lexString(s, c0) == lexCharacterDelimited(s, c0, "'")

(***************************************************************************)
(* longestMatch                                                            *)
(***************************************************************************)
\* a faulty variant of InSkipList: the skip list is never consulted
InSkipListNever(skipList, i) == FALSE

\* for _, skip := range skipList { if i == skip ... }
InSkipList(skipList, i) == \E k \in 1..Len(skipList) : skipList[k] = i

RECURSIVE MatchOptions(_, _, _, _, _, _)
\* the inner loop `for i, option := range options` from Go index i on, for
\* the candidate value of n = cur.ptr - ic.ptr bytes; option[:n] with
\* n > len(option) is a run-time panic
MatchOptions(options, value, n, i, skipList, match) ==
    IF i >= Len(options)
    THEN [skipList |-> skipList, match |-> match, panic |-> FALSE]
    ELSE LET option == options[i + 1]
         IN  IF InSkipList(skipList, i)
             THEN MatchOptions(options, value, n, i + 1, skipList, match)
             ELSE IF option = value
             THEN MatchOptions(options, value, n, i + 1, Append(skipList, i),
                               IF Len(option) > Len(match) THEN option ELSE match)
             ELSE IF n > Len(option)
             THEN [skipList |-> skipList, match |-> match, panic |-> TRUE]
             ELSE LET sharesPrefix == value = SubSeq(option, 1, n)
                      tooLong == Len(value) > Len(option)
                  IN  MatchOptions(options, value, n, i + 1,
                                   IF tooLong \/ ~sharesPrefix
                                   THEN Append(skipList, i)
                                   ELSE skipList,
                                   match)

\* a faulty variant of AllEliminated: the loop stops once any entry is eliminated
SomeEliminated(skipList, options) == Len(skipList) >= 1 \/ Len(options) = 0

\* the exit test `len(skipList) == len(options)`
AllEliminated(skipList, options) == Len(skipList) = Len(options)

RECURSIVE LongestMatchLoop(_, _, _, _, _, _, _)
\* the outer loop `for cur.ptr < uint(len(src))`, returning the locals at exit
LongestMatchLoop(s, c0, options, ptr, value, skipList, match) ==
    IF ptr >= Len(s)
    THEN [value |-> value, skipList |-> skipList, match |-> match,
          ptr |-> ptr, panic |-> FALSE]
    ELSE LET value1 == Append(value, ToLowerChar(s[ptr + 1]))
             ptr1 == ptr + 1
             r == MatchOptions(options, value1, ptr1 - c0.ptr, 0, skipList, match)
         IN  IF r.panic \/ AllEliminated(r.skipList, options)
             THEN [value |-> value1, skipList |-> r.skipList, match |-> r.match,
                   ptr |-> ptr1, panic |-> r.panic]
             ELSE LongestMatchLoop(s, c0, options, ptr1, value1, r.skipList, r.match)

\* the locals of longestMatch when it returns (or panics)
LongestMatchRun(s, c0, options) ==
    LongestMatchLoop(s, c0, options, c0.ptr, <<>>, <<>>, <<>>)

longestMatch(s, c0, options) == LongestMatchRun(s, c0, options).match

\* a scanner whose call to longestMatch panicked
Panicked(c0) == [tok |-> NilTok, cur |-> c0, ok |-> FALSE, panic |-> TRUE]

(***************************************************************************)
(* lexSymbol                                                               *)
(***************************************************************************)
\* the vocabulary in the order of the `symbols` slice: , ( ) ; *
symbols == << <<",">>, <<"(">>, <<")">>, <<";">>, <<"*">> >>

lexSymbol(s, c0) ==
    LET c == s[c0.ptr + 1]
    IN  IF c = "\n"
        THEN Matched(NilTok, Cursor(c0.ptr + 1, c0.loc.line + 1, 0))
        ELSE IF c \in {"\t", " "}
        THEN Matched(NilTok, Cursor(c0.ptr + 1, c0.loc.line, c0.loc.column + 1))
        ELSE LET run == LongestMatchRun(s, c0, symbols)
                 match == run.match
             IN  IF run.panic
                 THEN Panicked(c0)
                 ELSE IF match = <<>>
                 THEN NoMatch(c0)
                 ELSE Matched(Tok(match, symbolType, c0.loc),
                              Cursor(c0.ptr + Len(match), c0.loc.line,
                                     c0.loc.column + Len(match)))

(***************************************************************************)
(* lexKeyword                                                              *)
(***************************************************************************)
selectKeyword == <<"s", "e", "l", "e", "c", "t">>
whereKeyword == <<"w", "h", "e", "r", "e">>
fromKeyword == <<"f", "r", "o", "m">>
asKeyword == <<"a", "s">>
tableKeyword == <<"t", "a", "b", "l", "e">>
createKeyword == <<"c", "r", "e", "a", "t", "e">>
insertKeyword == <<"i", "n", "s", "e", "r", "t">>
intoKeyword == <<"i", "n", "t", "o">>
valuesKeyword == <<"v", "a", "l", "u", "e", "s">>
intKeyword == <<"i", "n", "t">>
textKeyword == <<"t", "e", "x", "t">>

\* the vocabulary in the order of the `keywords` slice
keywords == <<selectKeyword, insertKeyword, valuesKeyword, tableKeyword,
              createKeyword, whereKeyword, fromKeyword, intoKeyword, textKeyword>>

\* a faulty variant of lexKeyword: the test `match == ""` is left out
lexKeywordNoCheck(s, c0) ==
    LET match == longestMatch(s, c0, keywords)
    IN  Matched(Tok(match, keywordType, c0.loc),
                Cursor(c0.ptr + Len(match), c0.loc.line, c0.loc.column + Len(match)))

lexKeyword(s, c0) ==
    LET run == LongestMatchRun(s, c0, keywords)
        match == run.match
    IN  IF run.panic
        THEN Panicked(c0)
        ELSE IF match = <<>>
        THEN NoMatch(c0)
        ELSE Matched(Tok(match, keywordType, c0.loc),
                     Cursor(c0.ptr + Len(match), c0.loc.line,
                            c0.loc.column + Len(match)))

(***************************************************************************)
(* lexIdentifier                                                           *)
(***************************************************************************)
IsAlphabetical(c) == c \in UpperLetters \/ c \in LowerLetters

RECURSIVE LexIdentifierLoop(_, _, _, _, _)
\* the for loop after the first letter
LexIdentifierLoop(s, c0, ptr, col, value) ==
    IF ptr < Len(s)
       /\ (IsAlphabetical(s[ptr + 1]) \/ s[ptr + 1] \in Digits
           \/ s[ptr + 1] = "$" \/ s[ptr + 1] = "_")
    THEN LexIdentifierLoop(s, c0, ptr + 1, col + 1, Append(value, s[ptr + 1]))
    ELSE IF Len(value) = 0
    THEN NoMatch(c0)
    ELSE Matched(Tok(ToLower(value), identifierType, c0.loc),
                 Cursor(ptr, c0.loc.line, col))

lexIdentifier(s, c0) ==
    LET quoted == lexCharacterDelimited(s, c0, "\"")
    IN  IF quoted.ok
        THEN quoted
        ELSE IF ~IsAlphabetical(s[c0.ptr + 1])
        THEN NoMatch(c0)
        ELSE LexIdentifierLoop(s, c0, c0.ptr + 1, c0.loc.column + 1,
                               <<s[c0.ptr + 1]>>)

(***************************************************************************)
(* Inputs: texts made of at most n pieces, a piece being one character or  *)
(* one of a few words.                                                     *)
(***************************************************************************)
RECURSIVE Flatten(_)
Flatten(ps) == IF ps = <<>> THEN <<>> ELSE Head(ps) \o Flatten(Tail(ps))

SeqsUpTo(S, n) == UNION {[1..k -> S] : k \in 0..n}

TextsOf(P, n) == {Flatten(ps) : ps \in SeqsUpTo(P, n)}

Pieces ==
    { <<"1">>, <<".">>, <<"e">>, <<"+">>, <<"'">>, <<"a">>, <<" ">>, <<"\t">>,
      <<"\n">>, <<"'", "'">>, <<"1", ".", "2">>, <<".", "3">>, selectKeyword }

Inputs == TextsOf(Pieces, MaxPieces)

(***************************************************************************)
(* tokenize                                                                *)
(***************************************************************************)
\* lexers := []lexer{lexNum, lexString}
lexers == <<"lexNum", "lexString">>

RunLexer(l, s, c0) ==
    CASE l = "lexNum" -> lexNum(s, c0)
      [] l = "lexString" -> lexString(s, c0)
      [] l = "lexSymbol" -> lexSymbol(s, c0)
      [] l = "lexKeyword" -> lexKeyword(s, c0)
      [] l = "lexIdentifier" -> lexIdentifier(s, c0)

RECURSIVE FirstMatch(_, _, _, _)
\* for _, l := range lexers: the result of the first lexer that succeeds
FirstMatch(ls, i, s, c0) ==
    IF i > Len(ls)
    THEN NoMatch(c0)
    ELSE LET r == RunLexer(ls[i], s, c0)
         IN  IF r.ok THEN r ELSE FirstMatch(ls, i + 1, s, c0)

\* the error built by fmt.Errorf("unable to lex tokens%s, at %d:%d", ...)
LexError(toks, c0) ==
    [msg |-> "unable to lex tokens",
     hint |-> IF Len(toks) > 0 THEN <<"after ">> \o toks[Len(toks)].value ELSE <<>>,
     line |-> c0.loc.line,
     column |-> c0.loc.column]

\* what tokenize returns: (tokens, nil) or (nil, err)
TokenizeOk(toks) == [nil |-> FALSE, tokens |-> toks, err |-> NilErr]

TokenizeErr(e) == [nil |-> TRUE, tokens |-> <<>>, err |-> e]

NoRet == [nil |-> TRUE, tokens |-> <<>>, err |-> NilErr]

RECURSIVE tokenizeFrom(_, _, _)
\* the loop of tokenize run to its return, from cursor c0 with toks accumulated
tokenizeFrom(s, c0, toks) ==
    IF c0.ptr >= Len(s)
    THEN TokenizeOk(toks)
    ELSE LET r == FirstMatch(lexers, 1, s, c0)
         IN  IF r.ok
             THEN tokenizeFrom(s, r.cur,
                               IF r.tok # NilTok THEN Append(toks, r.tok) ELSE toks)
             ELSE TokenizeErr(LexError(toks, c0))

tokenize(s) == tokenizeFrom(s, Cursor(0, 0, 0), <<>>)

\* an iteration of the loop in which a lexer succeeds
TokenizeScan ==
    /\ pc = "lex"
    /\ cur.ptr < Len(src)
    /\ LET r == FirstMatch(lexers, 1, src, cur)
       IN  /\ r.ok
           /\ cur' = r.cur
           /\ tokens' = IF r.tok # NilTok THEN Append(tokens, r.tok) ELSE tokens
    /\ UNCHANGED <<src, pc, ret, ic, scanned, cursor, a>>

\* an iteration of the loop in which no lexer succeeds
TokenizeFail ==
    /\ pc = "lex"
    /\ cur.ptr < Len(src)
    /\ ~FirstMatch(lexers, 1, src, cur).ok
    /\ ret' = TokenizeErr(LexError(tokens, cur))
    /\ pc' = "done"
    /\ UNCHANGED <<src, cur, tokens, ic, scanned, cursor, a>>

\* the loop condition fails: return tokens, nil
TokenizeReturn ==
    /\ pc = "lex"
    /\ cur.ptr >= Len(src)
    /\ ret' = TokenizeOk(tokens)
    /\ pc' = "done"
    /\ UNCHANGED <<src, cur, tokens, ic, scanned, cursor, a>>

NoScan == [fn |-> "none"]

Init ==
    /\ src \in Inputs
    /\ cur = Cursor(0, 0, 0)
    /\ tokens = <<>>
    /\ pc = "lex"
    /\ ret = NoRet
    /\ ic = Cursor(0, 0, 0)
    /\ scanned = NoScan
    /\ cursor = 0
    /\ a = <<>>

Next == TokenizeScan \/ TokenizeFail \/ TokenizeReturn

Spec == Init /\ [][Next]_vars

\* tokenize runs to completion: the loop is not suspended
SpecLive == Init /\ [][Next]_vars /\ WF_vars(Next)

(***************************************************************************)
(* Properties of tokenize, checked under Spec (C7 under SpecLive).         *)
(***************************************************************************)
\* the (value, kind) pairs of a token sequence: what tok.eq compares
ValueKinds(toks) == [i \in 1..Len(toks) |-> <<toks[i].value, toks[i].tt>>]

RECURSIVE Doubled(_)
\* t with each single quote doubled
Doubled(t) ==
    IF t = <<>> THEN <<>>
    ELSE (IF Head(t) = "'" THEN <<"'", "'">> ELSE <<Head(t)>>) \o Doubled(Tail(t))

\* the single-quoted form of t
Quoted(t) == <<"'">> \o Doubled(t) \o <<"'">>

RECURSIVE Undoubled(_)
\* s with each pair of single quotes read as one
Undoubled(s) ==
    IF s = <<>> THEN <<>>
    ELSE IF Len(s) >= 2 /\ s[1] = "'" /\ s[2] = "'"
    THEN <<"'">> \o Undoubled(SubSeq(s, 3, Len(s)))
    ELSE <<Head(s)>> \o Undoubled(Tail(s))

\* the text whose single-quoted form s is, if s is one
QuotedText(s) == IF Len(s) >= 2 THEN Undoubled(SubSeq(s, 2, Len(s) - 1)) ELSE <<>>

IsQuotedForm(s) == Quoted(QuotedText(s)) = s

\* C1: tokenizing the single-quoted form of a text t, inner quotes doubled,
\* succeeds with exactly one token, of kind String, whose value is t.
C1_StringRoundTrip ==
    (pc = "done" /\ IsQuotedForm(src))
        => /\ ~ret.nil
           /\ ret.err = NilErr
           /\ ValueKinds(ret.tokens) = << <<QuotedText(src), stringType>> >>

\* the order of scanners C2 states
StatedLexers == <<"lexNum", "lexString", "lexSymbol", "lexKeyword", "lexIdentifier">>

\* C2: at every position the scanners are tried in the order numeric, string,
\* symbol, keyword, identifier and the first success is taken: tokenize fails
\* only where none of the five succeeds, `select` comes out as one Keyword
\* token and the bare name `a` as one Identifier token.
C2_ScannerOrder ==
    pc = "done"
        => /\ ret.nil => ~FirstMatch(StatedLexers, 1, src, cur).ok
           /\ src = selectKeyword
                => ValueKinds(ret.tokens) = << <<selectKeyword, keywordType>> >>
           /\ src = <<"a">>
                => ValueKinds(ret.tokens) = << <<(<<"a">>), identifierType>> >>

IsWhitespace(s) == s # <<>> /\ \A i \in 1..Len(s) : s[i] \in {" ", "\t", "\n"}

\* pre and post meet at a token boundary of the text pre \o post, which
\* tokenizes successfully to at least one token
TokenBoundary(pre, post) ==
    LET whole == tokenize(pre \o post)
        left == tokenize(pre)
        right == tokenize(post)
    IN  /\ ~whole.nil /\ ~left.nil /\ ~right.nil
        /\ whole.tokens # <<>>
        /\ ValueKinds(whole.tokens) = ValueKinds(left.tokens) \o ValueKinds(right.tokens)

\* C3: a run of spaces, tabs or newlines inserted at a token boundary of a
\* text that tokenizes successfully leaves the tokenization successful with
\* the same (value, kind) pairs.
C3_WhitespaceInsignificant ==
    pc = "done"
        => \A i \in 0..Len(src) : \A j \in i + 1..Len(src) :
             LET pre == SubSeq(src, 1, i)
                 post == SubSeq(src, j + 1, Len(src))
             IN  (IsWhitespace(SubSeq(src, i + 1, j)) /\ TokenBoundary(pre, post))
                   => /\ ~ret.nil
                      /\ ValueKinds(ret.tokens) = ValueKinds(tokenize(pre \o post).tokens)

RECURSIVE SecondPeriodFrom(_, _, _)
\* the byte offset of the second period of the run of digits and periods
\* that starts the text, or -1
SecondPeriodFrom(s, i, seen) ==
    IF i > Len(s) \/ ~(s[i] \in Digits \/ s[i] = ".")
    THEN -1
    ELSE IF s[i] = "."
    THEN IF seen THEN i - 1 ELSE SecondPeriodFrom(s, i + 1, TRUE)
    ELSE SecondPeriodFrom(s, i + 1, seen)

SecondPeriod(s) == SecondPeriodFrom(s, 1, FALSE)

\* C6 as stated: a numeric literal with a second decimal point is a lex
\* error, no tokens, located at the second period.
C6_LocatedAtSecondPeriod ==
    (pc = "done" /\ SecondPeriod(src) >= 0)
        => /\ ret.nil /\ ret.tokens = <<>>
           /\ ret.err.msg = "unable to lex tokens"
           /\ ret.err.line = 0 /\ ret.err.column = SecondPeriod(src)

\* C6 amended: a numeric literal with a second decimal point is a lex error,
\* no tokens, located at the cursor where the scan of the literal started.
C6_LocatedAtLiteralStart ==
    (pc = "done" /\ SecondPeriod(src) >= 0)
        => /\ ret.nil /\ ret.tokens = <<>>
           /\ ret.err = [msg |-> "unable to lex tokens", hint |-> <<>>,
                         line |-> 0, column |-> 0]

C6_Witness ==
    pc = "done" /\ src = <<"1", ".", "2", ".", "3">> /\ ret.nil /\ ret.err.column = 0

\* a single-quoted literal is open at the end of the text
HasUnterminatedLiteral(s) == Cardinality({i \in 1..Len(s) : s[i] = "'"}) % 2 = 1

\* C7: every iteration of tokenize consumes at least one byte or returns the
\* lex error, tokenize returns, and a text with an unterminated single-quoted
\* literal ends in the lex error with no tokens.
C7_Terminates ==
    /\ [][pc = "lex" => (cur'.ptr > cur.ptr \/ (pc' = "done" /\ ret'.err # NilErr))
                         \/ (pc' = "done" /\ cur.ptr >= Len(src))]_vars
    /\ <>(pc = "done")
    /\ [](pc = "done" /\ HasUnterminatedLiteral(src)
            => ret.nil /\ ret.tokens = <<>> /\ ret.err.msg = "unable to lex tokens")

C7_Witness ==
    /\ pc = "done" /\ src = <<"'", "a">>
    /\ ret.nil /\ ret.err.msg = "unable to lex tokens"

(***************************************************************************)
(* The scanners applied on their own: any text, any in-range start cursor. *)
(***************************************************************************)
ScanPieces ==
    { <<"1">>, <<".">>, <<"e">>, <<"+">>, <<"'">>, <<"\"">>, <<" ">>, <<"\n">>,
      <<";">>, <<"x">>, <<"F">>, <<"$">>, selectKeyword,
      <<"S", "E", "L", "E", "C", "T">>, <<"S", "e", "l", "e", "c", "t">>,
      <<"F", "o", "o">>, <<"f", "o", "o">>, intKeyword,
      <<"\"", "F", "o", "\"">>, <<"'", "a", "'", "'", "b", "'">>,
      <<"'", "\n", "'">>, <<"1", "e", "+">> }

ScanInputs == TextsOf(ScanPieces, MaxScanPieces) \ {<<>>}

\* the cursors tokenize can hold at byte p: on the first line, or at the
\* start of a later one
StartCursors(s) ==
    {Cursor(p, 0, p) : p \in 0..Len(s) - 1} \cup {Cursor(p, 1, 0) : p \in 1..Len(s) - 1}

Scanned(f, r) == [fn |-> f, options |-> <<>>, res |-> r]

ScanLexNum ==
    /\ pc = "scan"
    /\ scanned' = Scanned("lexNum", lexNum(src, ic))
    /\ pc' = "done"
    /\ UNCHANGED <<src, cur, tokens, ret, ic, cursor, a>>

ScanLexString ==
    /\ pc = "scan"
    /\ scanned' = Scanned("lexString", lexString(src, ic))
    /\ pc' = "done"
    /\ UNCHANGED <<src, cur, tokens, ret, ic, cursor, a>>

ScanLexSymbol ==
    /\ pc = "scan"
    /\ scanned' = Scanned("lexSymbol", lexSymbol(src, ic))
    /\ pc' = "done"
    /\ UNCHANGED <<src, cur, tokens, ret, ic, cursor, a>>

ScanLexKeyword ==
    /\ pc = "scan"
    /\ scanned' = Scanned("lexKeyword", lexKeyword(src, ic))
    /\ pc' = "done"
    /\ UNCHANGED <<src, cur, tokens, ret, ic, cursor, a>>

ScanLexIdentifier ==
    /\ pc = "scan"
    /\ scanned' = Scanned("lexIdentifier", lexIdentifier(src, ic))
    /\ pc' = "done"
    /\ UNCHANGED <<src, cur, tokens, ret, ic, cursor, a>>

InitScan ==
    /\ src \in ScanInputs
    /\ ic \in StartCursors(src)
    /\ cur = Cursor(0, 0, 0)
    /\ tokens = <<>>
    /\ pc = "scan"
    /\ ret = NoRet
    /\ scanned = NoScan
    /\ cursor = 0
    /\ a = <<>>

NextScan ==
    ScanLexNum \/ ScanLexString \/ ScanLexSymbol \/ ScanLexKeyword \/ ScanLexIdentifier

SpecScan == InitScan /\ [][NextScan]_vars

(***************************************************************************)
(* longestMatch applied on its own: any vocabulary of non-empty entries.   *)
(***************************************************************************)
MatchAlphabet == { <<"i">>, <<"n">>, <<"t">>, <<"N">> }

MatchInputs == TextsOf(MatchAlphabet, MaxMatchLen) \ {<<>>}

OptionEntries == { <<"i">>, <<"i", "n">>, intKeyword, <<"n", "t">> }

Vocabularies == SeqsUpTo(OptionEntries, MaxOptions)

ScanLongestMatch ==
    /\ pc = "scan"
    /\ \E options \in Vocabularies :
         scanned' = [fn |-> "longestMatch", options |-> options,
                     res |-> LongestMatchRun(src, ic, options)]
    /\ pc' = "done"
    /\ UNCHANGED <<src, cur, tokens, ret, ic, cursor, a>>

InitMatch ==
    /\ src \in MatchInputs
    /\ ic \in {Cursor(p, 0, p) : p \in 0..Len(src)}
    /\ cur = Cursor(0, 0, 0)
    /\ tokens = <<>>
    /\ pc = "scan"
    /\ ret = NoRet
    /\ scanned = NoScan
    /\ cursor = 0
    /\ a = <<>>

NextMatch == ScanLongestMatch

SpecMatch == InitMatch /\ [][NextMatch]_vars

(***************************************************************************)
(* Properties of the scanners, checked under SpecMatch and SpecScan.       *)
(***************************************************************************)
\* lower-casing of ASCII text, stated apart from the scanners' own
FoldChar(c) ==
    IF \E i \in 1..26 : UpperSeq[i] = c
    THEN LowerSeq[CHOOSE i \in 1..26 : UpperSeq[i] = c]
    ELSE c

Folded(s) == [i \in 1..Len(s) |-> FoldChar(s[i])]

\* the text from the start cursor on
Rest == SubSeq(src, ic.ptr + 1, Len(src))

IsPrefix(p, s) == Len(p) <= Len(s) /\ SubSeq(s, 1, Len(p)) = p

\* the entries of a vocabulary that are a prefix of the lower-cased text
PrefixEntries(options, s) ==
    {options[i] : i \in {k \in 1..Len(options) : IsPrefix(options[k], Folded(s))}}

\* the longest of them, or the empty text
LongestPrefixEntry(options, s) ==
    LET es == PrefixEntries(options, s)
    IN  IF es = {} THEN <<>>
        ELSE CHOOSE e \in es : \A f \in es : Len(f) <= Len(e)

\* C9: longestMatch returns the longest vocabulary entry that is a prefix of
\* the lower-cased input at the cursor, and the empty text exactly when no
\* entry is such a prefix.
C9_LongestMatchMaximal ==
    scanned.fn = "longestMatch"
        => /\ ~scanned.res.panic
           /\ scanned.res.match = LongestPrefixEntry(scanned.options, Rest)
           /\ scanned.res.match = <<>> <=> PrefixEntries(scanned.options, Rest) = {}

\* `in` and `int` both match and the longer one is returned
C9_Witness ==
    /\ scanned.fn = "longestMatch"
    /\ Cardinality(PrefixEntries(scanned.options, Rest)) >= 2
    /\ scanned.res.match = intKeyword

RECURSIVE NameLen(_)
\* the length of the run of letters, digits, `$` and `_` that starts s
NameLen(s) ==
    IF s # <<>> /\ (IsAlphabetical(Head(s)) \/ Head(s) \in Digits \/ Head(s) \in {"$", "_"})
    THEN 1 + NameLen(Tail(s))
    ELSE 0

\* C10: the keyword scanner answers a spelling of `select` in any letter case
\* with the Keyword token `select`, and the bare-identifier scanner answers
\* a name with the Identifier token of its lower-cased spelling, so that two
\* spellings differing in case only give tokens equal under tok.eq.
C10_CaseInsensitive ==
    /\ (scanned.fn = "lexKeyword" /\ IsPrefix(selectKeyword, Folded(Rest)))
         => /\ scanned.res.ok
            /\ scanned.res.tok.value = selectKeyword
            /\ scanned.res.tok.tt = keywordType
    /\ (scanned.fn = "lexIdentifier" /\ IsAlphabetical(src[ic.ptr + 1]))
         => /\ scanned.res.ok
            /\ scanned.res.tok.tt = identifierType
            /\ scanned.res.tok.value = Folded(SubSeq(Rest, 1, NameLen(Rest)))
            /\ TokEq(scanned.res.tok, lexIdentifier(Folded(src), ic).tok)

\* an upper-case spelling was scanned
C10_Witness ==
    \/ /\ scanned.fn = "lexKeyword" /\ src = <<"S", "E", "L", "E", "C", "T">>
       /\ scanned.res.tok.value = selectKeyword
    \/ /\ scanned.fn = "lexIdentifier" /\ src = <<"F", "o", "o">>
       /\ scanned.res.tok.value = <<"f", "o", "o">>

(***************************************************************************)
(* The statement parser. parseStatement is called by Parse but is not part *)
(* of the sources; it is modelled from the grammar of the specification:   *)
(*   statement       = selectStmt | createTableStmt | insertStmt           *)
(*   selectStmt      = "select" exprList "from" ident                      *)
(*   createTableStmt = "create" "table" ident "(" columnDef {"," columnDef} ")" *)
(*   columnDef       = ident typeKeyword                                   *)
(*   insertStmt      = "insert" "into" ident "values" "(" exprList ")"     *)
(*   exprList        = expr {"," expr},  expr = String or Numeric token    *)
(***************************************************************************)
NoLoc == Loc(0, 0)

tokenFromKeyword(k) == Tok(k, keywordType, NoLoc)

tokenFromPunct(p) == Tok(p, symbolType, NoLoc)

semicolonPunct == <<";">>
commaPunct == <<",">>
leftparenPunct == <<"(">>
rightparenPunct == <<")">>

expectToken(toks, c, t) ==
    IF c >= Len(toks) THEN FALSE ELSE TokEq(t, toks[c + 1])

\* the diagnostic line helpMessage prints
helpMessage(toks, c, msg) ==
    LET t == IF c < Len(toks) THEN toks[c + 1] ELSE toks[c]
    IN  [line |-> t.loc.line, column |-> t.loc.column, msg |-> msg, got |-> t.value]

NoStatement(c) == [stmt |-> [nil |-> TRUE], cursor |-> c, ok |-> FALSE]

IsKind(toks, c, kind) == c < Len(toks) /\ toks[c + 1].tt = kind

IsLiteral(toks, c) == IsKind(toks, c, stringType) \/ IsKind(toks, c, numericType)

RECURSIVE parseExpressions(_, _, _)
\* exprList from index c on, exprs being the expressions read so far
parseExpressions(toks, c, exprs) ==
    IF ~IsLiteral(toks, c)
    THEN [exprs |-> <<>>, cursor |-> c, ok |-> FALSE]
    ELSE LET exprs1 == Append(exprs, [lit |-> toks[c + 1], tt |-> literalType])
         IN  IF expectToken(toks, c + 1, tokenFromPunct(commaPunct))
             THEN parseExpressions(toks, c + 2, exprs1)
             ELSE [exprs |-> exprs1, cursor |-> c + 1, ok |-> TRUE]

RECURSIVE parseColumnDefinitions(_, _, _)
\* columnDef {"," columnDef} from index c on
parseColumnDefinitions(toks, c, cols) ==
    IF ~(IsKind(toks, c, identifierType)
         /\ (expectToken(toks, c + 1, tokenFromKeyword(intKeyword))
             \/ expectToken(toks, c + 1, tokenFromKeyword(textKeyword))))
    THEN [cols |-> <<>>, cursor |-> c, ok |-> FALSE]
    ELSE LET cols1 == Append(cols, [name |-> toks[c + 1], datatype |-> toks[c + 2]])
         IN  IF expectToken(toks, c + 2, tokenFromPunct(commaPunct))
             THEN parseColumnDefinitions(toks, c + 3, cols1)
             ELSE [cols |-> cols1, cursor |-> c + 2, ok |-> TRUE]

parseSelectStatement(toks, c, delimiter) ==
    IF ~expectToken(toks, c, tokenFromKeyword(selectKeyword))
    THEN NoStatement(c)
    ELSE LET e == parseExpressions(toks, c + 1, <<>>)
         IN  IF e.ok /\ expectToken(toks, e.cursor, tokenFromKeyword(fromKeyword))
                /\ IsKind(toks, e.cursor + 1, identifierType)
             THEN [stmt |-> [tt |-> SelectType,
                             SelectStatement |-> [item |-> e.exprs,
                                                  from |-> toks[e.cursor + 2]]],
                   cursor |-> e.cursor + 2, ok |-> TRUE]
             ELSE NoStatement(c)

parseInsertStatement(toks, c, delimiter) ==
    IF ~(expectToken(toks, c, tokenFromKeyword(insertKeyword))
         /\ expectToken(toks, c + 1, tokenFromKeyword(intoKeyword))
         /\ IsKind(toks, c + 2, identifierType)
         /\ expectToken(toks, c + 3, tokenFromKeyword(valuesKeyword))
         /\ expectToken(toks, c + 4, tokenFromPunct(leftparenPunct)))
    THEN NoStatement(c)
    ELSE LET e == parseExpressions(toks, c + 5, <<>>)
         IN  IF e.ok /\ expectToken(toks, e.cursor, tokenFromPunct(rightparenPunct))
             THEN [stmt |-> [tt |-> InsertType,
                             InsertStatement |-> [table |-> toks[c + 3],
                                                  values |-> e.exprs]],
                   cursor |-> e.cursor + 1, ok |-> TRUE]
             ELSE NoStatement(c)

parseCreateTableStatement(toks, c, delimiter) ==
    IF ~(expectToken(toks, c, tokenFromKeyword(createKeyword))
         /\ expectToken(toks, c + 1, tokenFromKeyword(tableKeyword))
         /\ IsKind(toks, c + 2, identifierType)
         /\ expectToken(toks, c + 3, tokenFromPunct(leftparenPunct)))
    THEN NoStatement(c)
    ELSE LET d == parseColumnDefinitions(toks, c + 4, <<>>)
         IN  IF d.ok /\ expectToken(toks, d.cursor, tokenFromPunct(rightparenPunct))
             THEN [stmt |-> [tt |-> CreateTableType,
                             CreateTableStatement |-> [name |-> toks[c + 3],
                                                       cols |-> d.cols]],
                   cursor |-> d.cursor + 1, ok |-> TRUE]
             ELSE NoStatement(c)

parseStatement(toks, c, delimiter) ==
    LET sel == parseSelectStatement(toks, c, delimiter)
        ins == parseInsertStatement(toks, c, delimiter)
        cre == parseCreateTableStatement(toks, c, delimiter)
    IN  IF sel.ok THEN sel
        ELSE IF ins.ok THEN ins
        ELSE IF cre.ok THEN cre
        ELSE NoStatement(c)

(***************************************************************************)
(* Parse                                                                   *)
(***************************************************************************)
RECURSIVE ConsumeSemicolonsFrom(_, _, _)
ConsumeSemicolonsFrom(toks, c, found) ==
    IF expectToken(toks, c, tokenFromPunct(semicolonPunct))
    THEN ConsumeSemicolonsFrom(toks, c + 1, TRUE)
    ELSE [cursor |-> c, atLeastOneSemicolon |-> found]

\* a faulty variant of ConsumeSemicolons: `if` for `for`, one semicolon is consumed
ConsumeOneSemicolon(toks, c) ==
    IF expectToken(toks, c, tokenFromPunct(semicolonPunct))
    THEN [cursor |-> c + 1, atLeastOneSemicolon |-> TRUE]
    ELSE [cursor |-> c, atLeastOneSemicolon |-> FALSE]

\* atLeastOneSemicolon := false; for expectToken(tokens, cursor, `;`) { ... }
ConsumeSemicolons(toks, c) == ConsumeSemicolonsFrom(toks, c, FALSE)

\* a faulty variant of AppendStatement: the statement is put in front
PrependStatement(stmts, stmt) == <<stmt>> \o stmts

\* a.Statements = append(a.Statements, stmt)
AppendStatement(stmts, stmt) == Append(stmts, stmt)

\* what Parse returns: (&a, nil) or (nil, err); diag is the line printed
ParseOk(stmts) == [nil |-> FALSE, ast |-> stmts, err |-> NilErr, diag |-> <<>>]

ParseErr(e, d) == [nil |-> TRUE, ast |-> <<>>, err |-> e, diag |-> d]

NoParseRet == [nil |-> TRUE, ast |-> <<>>, err |-> NilErr, diag |-> <<>>]

ExpectedStatementErr == [msg |-> "Failed to parse, expected statement"]

MissingSemicolonErr == [msg |-> "Missing semi-colon between statements"]

RECURSIVE parseFrom(_, _, _)
\* the loop of Parse run to its return, from index c with stmts accumulated
parseFrom(toks, c, stmts) ==
    IF c >= Len(toks)
    THEN ParseOk(stmts)
    ELSE LET r == parseStatement(toks, c, tokenFromPunct(semicolonPunct))
             semi == ConsumeSemicolons(toks, r.cursor)
         IN  IF ~r.ok
             THEN ParseErr(ExpectedStatementErr,
                           <<helpMessage(toks, c, "Expected statement")>>)
             ELSE IF ~semi.atLeastOneSemicolon
             THEN ParseErr(MissingSemicolonErr,
                           <<helpMessage(toks, semi.cursor,
                                "Expected semi-colon delimiter between statements")>>)
             ELSE parseFrom(toks, semi.cursor, AppendStatement(stmts, r.stmt))

(***************************************************************************)
(* The token sequences Parse is run on: what tokenize returns for a text,  *)
(* and every sequence of at most MaxItems items, an item being a statement,*)
(* a semicolon or a stray token.  Token i carries location 0:i.            *)
(***************************************************************************)
KW(k) == <<k, keywordType>>

SY(p) == <<p, symbolType>>

ID(n) == <<n, identifierType>>

Items ==
    { <<KW(selectKeyword), <<(<<"1">>), numericType>>, KW(fromKeyword), ID(<<"t">>)>>,
      <<KW(selectKeyword), <<(<<"1">>), numericType>>, SY(commaPunct),
        <<(<<"x">>), stringType>>, KW(fromKeyword), ID(<<"u">>)>>,
      <<KW(insertKeyword), KW(intoKeyword), ID(<<"t">>), KW(valuesKeyword),
        SY(leftparenPunct), <<(<<"x">>), stringType>>, SY(rightparenPunct)>>,
      <<KW(createKeyword), KW(tableKeyword), ID(<<"v">>), SY(leftparenPunct),
        ID(<<"a">>), KW(intKeyword), SY(commaPunct), ID(<<"b">>), KW(textKeyword),
        SY(rightparenPunct)>>,
      <<SY(semicolonPunct)>>,
      <<KW(fromKeyword)>>,
      <<KW(selectKeyword), <<(<<"1">>), numericType>>, KW(fromKeyword)>> }

Located(vks) == [i \in 1..Len(vks) |-> Tok(vks[i][1], vks[i][2], Loc(0, i - 1))]

ParseTokenSeqs == {Located(Flatten(is)) : is \in SeqsUpTo(Items, MaxItems)}

ParseTexts == TextsOf(Pieces, MaxParsePieces)

\* tokens, err := tokenize(src); if err != nil { return nil, err }
ParseTokenizeFails ==
    /\ pc = "tokenize"
    /\ \E s \in ParseTexts :
         /\ tokenize(s).nil
         /\ src' = s
         /\ ret' = ParseErr(tokenize(s).err, <<>>)
    /\ pc' = "done"
    /\ UNCHANGED <<cur, tokens, ic, scanned, cursor, a>>

\* tokens, err := tokenize(src) with a nil error, for a text of ParseTexts
ParseTokenize ==
    /\ pc = "tokenize"
    /\ \E s \in ParseTexts :
         /\ ~tokenize(s).nil
         /\ src' = s
         /\ tokens' = tokenize(s).tokens
    /\ pc' = "parse"
    /\ UNCHANGED <<cur, ret, ic, scanned, cursor, a>>

\* tokens, err := tokenize(src) with a nil error, the tokens being any
\* sequence of ParseTokenSeqs (the text itself is not modelled)
ParseTokens ==
    /\ pc = "tokenize"
    /\ tokens' \in ParseTokenSeqs
    /\ pc' = "parse"
    /\ UNCHANGED <<src, cur, ret, ic, scanned, cursor, a>>

\* an iteration of the loop: a statement and at least one semicolon
ParseStatementOk ==
    /\ pc = "parse"
    /\ cursor < Len(tokens)
    /\ LET r == parseStatement(tokens, cursor, tokenFromPunct(semicolonPunct))
           semi == ConsumeSemicolons(tokens, r.cursor)
       IN  /\ r.ok
           /\ semi.atLeastOneSemicolon
           /\ a' = AppendStatement(a, r.stmt)
           /\ cursor' = semi.cursor
    /\ UNCHANGED <<src, cur, tokens, pc, ret, ic, scanned>>

\* a faulty variant of ParseMissingSemicolon: the statements parsed so far are returned
\* with the error
ParseMissingSemicolonPartial ==
    /\ pc = "parse"
    /\ cursor < Len(tokens)
    /\ LET r == parseStatement(tokens, cursor, tokenFromPunct(semicolonPunct))
           semi == ConsumeSemicolons(tokens, r.cursor)
       IN  /\ r.ok
           /\ ~semi.atLeastOneSemicolon
           /\ a' = AppendStatement(a, r.stmt)
           /\ cursor' = semi.cursor
           /\ ret' = [nil |-> FALSE, ast |-> a', err |-> MissingSemicolonErr,
                      diag |-> <<>>]
    /\ pc' = "done"
    /\ UNCHANGED <<src, cur, tokens, ic, scanned>>

\* an iteration of the loop: a statement and no semicolon after it
ParseMissingSemicolon ==
    /\ pc = "parse"
    /\ cursor < Len(tokens)
    /\ LET r == parseStatement(tokens, cursor, tokenFromPunct(semicolonPunct))
           semi == ConsumeSemicolons(tokens, r.cursor)
       IN  /\ r.ok
           /\ ~semi.atLeastOneSemicolon
           /\ a' = AppendStatement(a, r.stmt)
           /\ cursor' = semi.cursor
           /\ ret' = ParseErr(MissingSemicolonErr,
                        <<helpMessage(tokens, semi.cursor,
                             "Expected semi-colon delimiter between statements")>>)
    /\ pc' = "done"
    /\ UNCHANGED <<src, cur, tokens, ic, scanned>>

\* an iteration of the loop: no statement at the cursor
ParseExpectedStatement ==
    /\ pc = "parse"
    /\ cursor < Len(tokens)
    /\ ~parseStatement(tokens, cursor, tokenFromPunct(semicolonPunct)).ok
    /\ ret' = ParseErr(ExpectedStatementErr,
                       <<helpMessage(tokens, cursor, "Expected statement")>>)
    /\ pc' = "done"
    /\ UNCHANGED <<src, cur, tokens, ic, scanned, cursor, a>>

\* the loop condition fails: return &a, nil
ParseReturn ==
    /\ pc = "parse"
    /\ cursor >= Len(tokens)
    /\ ret' = ParseOk(a)
    /\ pc' = "done"
    /\ UNCHANGED <<src, cur, tokens, ic, scanned, cursor, a>>

InitParse ==
    /\ src = <<>>
    /\ cur = Cursor(0, 0, 0)
    /\ tokens = <<>>
    /\ pc = "tokenize"
    /\ ret = NoParseRet
    /\ ic = Cursor(0, 0, 0)
    /\ scanned = NoScan
    /\ cursor = 0
    /\ a = <<>>

NextParse ==
    \/ ParseTokenizeFails
    \/ ParseTokenize
    \/ ParseTokens
    \/ ParseStatementOk
    \/ ParseMissingSemicolon
    \/ ParseExpectedStatement
    \/ ParseReturn

SpecParse == InitParse /\ [][NextParse]_vars

(***************************************************************************)
(* Properties of Parse, checked under SpecParse.                           *)
(***************************************************************************)
IsSemicolon(t) == TokEq(t, tokenFromPunct(semicolonPunct))

RECURSIVE CollapseSemicolons(_)
\* toks with every run of `;` tokens cut down to its first token
CollapseSemicolons(toks) ==
    IF Len(toks) < 2 THEN toks
    ELSE IF IsSemicolon(toks[1]) /\ IsSemicolon(toks[2])
    THEN CollapseSemicolons(<<toks[1]>> \o SubSeq(toks, 3, Len(toks)))
    ELSE <<toks[1]>> \o CollapseSemicolons(Tail(toks))

\* a statement is recognised at the cursor and no `;` follows it
StatementWithoutSemicolon ==
    LET r == parseStatement(tokens, cursor, tokenFromPunct(semicolonPunct))
    IN  /\ pc = "parse" /\ cursor < Len(tokens)
        /\ r.ok
        /\ ~expectToken(tokens, r.cursor, tokenFromPunct(semicolonPunct))

\* C4: after each statement the loop consumes every consecutive `;` and needs
\* at least one: when it goes on, the token before the cursor is a `;` and
\* the token at the cursor is not; a statement with no `;` after it ends
\* Parse with the missing-semicolon error and no AST; and what Parse returns
\* is what it returns with every run of `;` cut down to one.
C4_SemicolonRuns ==
    /\ [][/\ (pc = "parse" /\ pc' = "parse" /\ cursor' # cursor)
               => /\ IsSemicolon(tokens[cursor'])
                  /\ ~expectToken(tokens, cursor', tokenFromPunct(semicolonPunct))
          /\ StatementWithoutSemicolon
               => /\ pc' = "done"
                  /\ ret'.nil /\ ret'.ast = <<>>
                  /\ ret'.err = MissingSemicolonErr]_vars
    /\ [](pc = "done" /\ tokens # <<>>
            => ret = parseFrom(CollapseSemicolons(tokens), 0, <<>>))

\* Parse succeeded on a statement followed by two semicolons
C4_Witness ==
    /\ pc = "done" /\ ~ret.nil /\ Len(ret.ast) >= 1
    /\ \E i \in 1..Len(tokens) - 1 : IsSemicolon(tokens[i]) /\ IsSemicolon(tokens[i + 1])

\* the iteration at the cursor fails: no statement there, or no `;` after it
FailsAtCursor ==
    /\ pc = "parse" /\ cursor < Len(tokens)
    /\ \/ ~parseStatement(tokens, cursor, tokenFromPunct(semicolonPunct)).ok
       \/ StatementWithoutSemicolon

\* C5: Parse returns an AST and no error, or an error and no AST; the first
\* lex error, statement failure or missing semicolon ends it at once, and the
\* statements accumulated before the error are not returned.
C5_FailWhole ==
    /\ [](pc = "done"
            => /\ \/ (~ret.nil /\ ret.err = NilErr)
                  \/ (ret.nil /\ ret.err # NilErr)
               /\ ret.nil => ret.ast = <<>>)
    /\ [](pc # "done" => ret = NoParseRet)
    /\ [][/\ FailsAtCursor => (pc' = "done" /\ ret'.nil /\ ret'.err # NilErr)
          /\ (pc = "tokenize" /\ src' # <<>> /\ tokenize(src').nil)
               => (pc' = "done" /\ ret'.nil /\ ret'.err = tokenize(src').err)]_vars

\* an error came after a statement had been accumulated
C5_Witness == pc = "done" /\ ret.nil /\ ret.err # NilErr /\ Len(a) >= 1

\* the place of a statement in the text: the location of its table name
StatementColumn(stmt) ==
    CASE stmt.tt = SelectType -> stmt.SelectStatement.from.loc.column
      [] stmt.tt = CreateTableType -> stmt.CreateTableStatement.name.loc.column
      [] stmt.tt = InsertType -> stmt.InsertStatement.table.loc.column

\* the tokens that start a statement
LeadingKeywords(toks) ==
    {i \in 1..Len(toks) :
        \E k \in {selectKeyword, createKeyword, insertKeyword} :
            TokEq(toks[i], tokenFromKeyword(k))}

\* C8: a statement is only ever appended at the end, it is the statement
\* recognised at the cursor, and when Parse succeeds the AST holds one entry
\* per statement of the token sequence, in the order in which they start.
C8_OrderPreserved ==
    /\ [][a' # a
            => /\ parseStatement(tokens, cursor, tokenFromPunct(semicolonPunct)).ok
               /\ a' = Append(a, parseStatement(tokens, cursor,
                                     tokenFromPunct(semicolonPunct)).stmt)]_vars
    /\ [](pc = "done" /\ ~ret.nil
            => /\ ret.ast = a
               /\ Len(ret.ast) = Cardinality(LeadingKeywords(tokens))
               /\ \A i \in 1..Len(ret.ast) : \A j \in 1..Len(ret.ast) :
                    i < j => StatementColumn(ret.ast[i]) < StatementColumn(ret.ast[j]))

\* Parse succeeded with two statements
C8_Witness == pc = "done" /\ ~ret.nil /\ Len(ret.ast) >= 2

(***************************************************************************)
(* Further properties of the scanners, checked under SpecScan.             *)
(***************************************************************************)
\* the scanner applied was lexIdentifier, on a text that opens with `"`
QuotedIdentifierScanned ==
    scanned.fn = "lexIdentifier" /\ src[ic.ptr + 1] = "\"" /\ scanned.res.ok

RECURSIVE ClosingAt(_, _, _)
\* the byte offset just past the delimiter that closes a literal whose
\* content starts at Go index i - 1 (doubled delimiters skipped), or 0
ClosingAt(s, i, d) ==
    IF i > Len(s) THEN 0
    ELSE IF s[i] = d
    THEN IF i + 1 <= Len(s) /\ s[i + 1] = d THEN ClosingAt(s, i + 2, d) ELSE i
    ELSE ClosingAt(s, i + 1, d)

\* the bytes between the delimiters of the literal that opens at the cursor
LiteralContent(d) == SubSeq(src, ic.ptr + 2, ClosingAt(src, ic.ptr + 2, d) - 1)

\* C11: a double-quoted identifier scanned by lexIdentifier is a token of
\* kind Identifier whose value is the text between the quotes as written.
C11_QuotedIdentifierKind ==
    QuotedIdentifierScanned
        => /\ scanned.res.tok.tt = identifierType
           /\ ~(\E i \in 1..Len(LiteralContent("\"")) : LiteralContent("\"")[i] = "\"")
                => scanned.res.tok.value = LiteralContent("\"")

\* the keyword vocabulary C12 states
StatedKeywords ==
    {selectKeyword, insertKeyword, valuesKeyword, tableKeyword, createKeyword,
     whereKeyword, fromKeyword, intoKeyword, intKeyword, textKeyword}

\* C12: lexKeyword applied where the text spells a word of the stated
\* vocabulary succeeds with a Keyword token carrying that word.
C12_EveryKeywordRecognised ==
    (scanned.fn = "lexKeyword" /\ Folded(Rest) \in StatedKeywords)
        => /\ scanned.res.ok
           /\ scanned.res.tok.tt = keywordType
           /\ scanned.res.tok.value = Folded(Rest)

Scanners == {"lexNum", "lexString", "lexSymbol", "lexKeyword", "lexIdentifier"}

\* a scanner was applied and returned a token
TokenScanned == scanned.fn \in Scanners /\ scanned.res.ok /\ scanned.res.tok # NilTok

\* C13 as stated: every token a scanner returns has a non-empty value.
C13_ValueNeverEmpty == TokenScanned => scanned.res.tok.value # <<>>

\* the delimiter of the literal the scanner applied reads, if it reads one
ScannedDelimiter ==
    IF scanned.fn = "lexString" THEN "'"
    ELSE IF scanned.fn = "lexIdentifier" THEN "\""
    ELSE "none"

\* the text at the cursor is the empty literal: two delimiters and no third
EmptyLiteralAtCursor(d) ==
    /\ Len(src) >= ic.ptr + 2
    /\ src[ic.ptr + 1] = d /\ src[ic.ptr + 2] = d
    /\ (Len(src) = ic.ptr + 2 \/ src[ic.ptr + 3] # d)

\* C13 amended: a token of the numeric, symbol, keyword or bare-identifier
\* scanner has a non-empty value, and a token of the delimited-literal
\* scanner has an empty value exactly when the literal is the empty literal.
C13_ValueEmptyOnlyForEmptyLiteral ==
    TokenScanned
        => (scanned.res.tok.value = <<>> <=> EmptyLiteralAtCursor(ScannedDelimiter))

\* the empty string literal was scanned
C13_Witness ==
    /\ TokenScanned /\ scanned.fn = "lexString"
    /\ src = <<"'", "'">> /\ scanned.res.tok.value = <<>>

\* C14: a failed scan returns no token and the input cursor unchanged, a
\* successful scan returns a byte offset strictly greater than the input's.
C14_CursorContract ==
    scanned.fn \in Scanners
        => /\ ~scanned.res.ok => (scanned.res.tok = NilTok /\ scanned.res.cur = ic)
           /\ scanned.res.ok => scanned.res.cur.ptr > ic.ptr

\* lexNum failed on a second period, after bytes it had accepted
C14_Witness ==
    /\ scanned.fn = "lexNum" /\ ~scanned.res.ok
    /\ src = <<".", ".">> /\ ic.ptr = 0
    /\ scanned.res.cur = ic

\* the number of bytes of s equal to c
CountOf(s, c) == Cardinality({i \in 1..Len(s) : s[i] = c})

\* a delimited literal was scanned successfully at the cursor
LiteralScanned ==
    /\ scanned.fn \in {"lexString", "lexIdentifier"}
    /\ scanned.res.ok
    /\ src[ic.ptr + 1] = ScannedDelimiter

\* C15: a doubled delimiter inside a literal adds exactly one delimiter
\* character to the value, so a literal written with n doubled delimiters
\* has a value with exactly n delimiter characters.
C15_DoubledDelimiterCountsOnce ==
    LiteralScanned
        => 2 * CountOf(scanned.res.tok.value, ScannedDelimiter)
             = CountOf(LiteralContent(ScannedDelimiter), ScannedDelimiter)

\* the bytes between the input cursor and the returned cursor
Consumed == SubSeq(src, ic.ptr + 1, scanned.res.cur.ptr)

\* a scanner was applied and succeeded
ScanSucceeded == scanned.fn \in Scanners /\ scanned.res.ok

\* C16: after a successful scan that consumes no newline the column has
\* advanced by the number of bytes consumed.
C16_ColumnCountsBytes ==
    (ScanSucceeded /\ CountOf(Consumed, "\n") = 0)
        => scanned.res.cur.loc.column - ic.loc.column = scanned.res.cur.ptr - ic.ptr

\* the number of bytes of s after its last newline
RECURSIVE AfterLastNewline(_)
AfterLastNewline(s) ==
    IF s = <<>> \/ s[Len(s)] = "\n" THEN 0
    ELSE 1 + AfterLastNewline(SubSeq(s, 1, Len(s) - 1))

\* C17: each newline consumed by a successful scan adds one to the line and
\* resets the column to zero, in whitespace and inside a delimited literal.
C17_NewlineAdvancesLine ==
    ScanSucceeded
        => /\ scanned.res.cur.loc.line = ic.loc.line + CountOf(Consumed, "\n")
           /\ CountOf(Consumed, "\n") > 0
                => scanned.res.cur.loc.column = AfterLastNewline(Consumed)

NumericBytes == Digits \cup {".", "e", "+", "-"}

\* the shape C18 states for the value of a numeric token
NumericShape(v) ==
    /\ v # <<>>
    /\ v[1] \in Digits \cup {"."}
    /\ CountOf(v, ".") <= 1
    /\ CountOf(v, "e") <= 1
    /\ \A i \in 1..Len(v) :
         /\ v[i] \in NumericBytes
         /\ v[i] = "." => \A j \in 1..i - 1 : v[j] # "e"
         /\ v[i] \in {"+", "-"} => (i > 1 /\ v[i - 1] = "e")

\* the text from the cursor on is digits and periods, then `e`, then nothing
ExponentMarkerIsLastByte ==
    /\ Len(Rest) >= 2
    /\ Rest[Len(Rest)] = "e"
    /\ \A i \in 1..Len(Rest) - 1 : Rest[i] \in Digits \cup {"."}

\* C18: the value of a numeric token starts with a digit or a period, has at
\* most one period and one `e`, no period after the `e`, a sign only right
\* after the `e`, and digits otherwise; an `e` that ends the input makes the
\* scan fail.
C18_NumericShape ==
    scanned.fn = "lexNum"
        => /\ scanned.res.ok => NumericShape(scanned.res.tok.value)
           /\ ExponentMarkerIsLastByte => ~scanned.res.ok

\* a literal with an exponent marker and a sign was scanned
C18_Witness ==
    /\ scanned.fn = "lexNum" /\ scanned.res.ok
    /\ IsPrefix(<<"1", "e", "+">>, scanned.res.tok.value)

\* C19: after a successful delimited-literal scan the returned byte offset
\* is the index just past the closing delimiter, the bytes consumed being
\* the literal with both delimiters.
C19_CursorPastClosingDelimiter ==
    LiteralScanned
        => /\ scanned.res.cur.ptr = ClosingAt(src, ic.ptr + 2, ScannedDelimiter)
           /\ Consumed = <<ScannedDelimiter>> \o LiteralContent(ScannedDelimiter)
                           \o <<ScannedDelimiter>>

(***************************************************************************)
(* A further property of longestMatch, checked under SpecMatch.            *)
(***************************************************************************)
\* C20: longestMatch never takes option[:n] with n beyond the entry, adds an
\* entry to the skip list at most once, and so its exit test holds exactly
\* when every entry has been eliminated.
C20_SkipListSound ==
    scanned.fn = "longestMatch"
        => LET skipList == scanned.res.skipList
               options == scanned.options
           IN  /\ ~scanned.res.panic
               /\ \A j \in 1..Len(skipList) : \A k \in 1..Len(skipList) :
                    skipList[j] = skipList[k] => j = k
               /\ \A j \in 1..Len(skipList) : skipList[j] \in 0..Len(options) - 1
               /\ AllEliminated(skipList, options)
                    <=> {skipList[j] : j \in 1..Len(skipList)} = 0..Len(options) - 1

\* a shorter entry matched and was skipped while a longer one stayed viable
C20_Witness ==
    /\ scanned.fn = "longestMatch"
    /\ scanned.options = << <<"i">>, intKeyword >>
    /\ scanned.res.value = intKeyword
    /\ scanned.res.skipList = <<0, 1>>

====
